---------------------------- MODULE Spec2Model ----------------------------
(***************************************************************************)
(* Model of the four batch conversion scripts docling/main.py,             *)
(* marker/main.py, markitdown/main.py and pymupdf/main.py.                 *)
(*                                                                         *)
(* One run of one script is one behaviour: main checks SOURCES, sets up    *)
(* the output directory and the converter, convert_from_sources walks the  *)
(* SOURCES list and dispatches each entry to process_folder_source,        *)
(* process_file_source or process_url_source, and main prints the summary. *)
(* Spec is that run; SpecTree is the same run with the files created in    *)
(* the output tree recorded as well; SpecExtract is one call of pymupdf's  *)
(* extract_text_from_pdf, page by page, and the handler's step after it.   *)
(*                                                                         *)
(* Strings are sequences of one-character strings, a path is the sequence  *)
(* of its components.  The file system and the wrapped library are the     *)
(* environment: what a traversal yields, whether a path exists, the size   *)
(* of a file and the first operation that raises while an item is handled  *)
(* are chosen with \E when the code asks for them.  SOURCES is read once,  *)
(* front to back: its length is fixed at the start and each entry is       *)
(* chosen when the loop of convert_from_sources reaches it.                *)
(***************************************************************************)
EXTENDS Integers, Sequences, FiniteSets, TLC

VARIABLES
    tool,             \* which of the four scripts runs
    OUTPUT_FORMAT,    \* marker/main.py configuration constant
    nsources,         \* len(SOURCES), the number of configured sources
    source_config,    \* SOURCES[idx - 1] or, during a folder walk, SOURCES[idx]
    pc,               \* position of the run
    idx,              \* index of the next entry of SOURCES in convert_from_sources
    total_converted, total_failed, total_skipped,     \* convert_from_sources
    converted_count, failed_count, skipped_count,     \* process_folder_source
    seen,             \* relative paths the folder traversal has yielded so far
    yielded,          \* number of entries the traversals of the run have yielded
    cur,              \* what happened to the item handled by the last step
    returned,         \* componentwise sum of the triples the handlers returned
    total_processed,  \* main: the printed total
    setup_done,       \* what main has set up: the output directory, the converter
    outputs,          \* output files open() has created, with the input of each
                      \* and whether the item was counted as converted
    writes,           \* number of writes of an output file that completed
    \* pymupdf/main.py, one call of extract_text_from_pdf:
    mode,             \* the mode argument
    document,         \* what the library returns for each page of the PDF
    epc,              \* position of the call
    page_num,         \* pages the for loop has finished
    text_content,     \* the list of page sections
    open_docs,        \* documents opened by fitz.open and not closed
    full_content      \* the returned string

run_vars == <<tool, OUTPUT_FORMAT, nsources, source_config, pc, idx,
              total_converted, total_failed, total_skipped,
              converted_count, failed_count, skipped_count,
              seen, yielded, cur, returned, total_processed,
              setup_done, outputs, writes>>

extract_vars == <<mode, document, epc, page_num, text_content, open_docs,
                  full_content>>

vars == <<tool, OUTPUT_FORMAT, nsources, source_config, pc, idx,
          total_converted, total_failed, total_skipped,
          converted_count, failed_count, skipped_count,
          seen, yielded, cur, returned, total_processed,
          setup_done, outputs, writes,
          mode, document, epc, page_num, text_content, open_docs,
          full_content>>

-----------------------------------------------------------------------------
(* Bounds of the model *)

MaxSources == 2      \* length of SOURCES
MaxEntries == 2      \* entries the folder traversals of one run yield
MaxPages == 2        \* pages of a PDF document

-----------------------------------------------------------------------------
(* Strings *)

Range(s) == {s[i] : i \in 1..Len(s)}

\* str.lower() on the letters the model uses
LowerChar(c) ==
    CASE c = "P" -> "p"
      [] c = "D" -> "d"
      [] c = "F" -> "f"
      [] OTHER -> c

Lower(s) == [i \in 1..Len(s) |-> LowerChar(s[i])]

\* str.rfind('.'), 1-based, 0 when there is no dot
RFindDot(s) ==
    LET dots == {i \in 1..Len(s) : s[i] = "."}
    IN  IF dots = {} THEN 0 ELSE CHOOSE i \in dots : \A j \in dots : j <= i

\* PurePath.suffix of a file name: the part from the last dot on, empty when
\* the dot is the first or the last character
Suffix(name) ==
    LET i == RFindDot(name)
    IN  IF 1 < i /\ i < Len(name) THEN SubSeq(name, i, Len(name)) ELSE <<>>

\* PurePath.stem
Stem(name) ==
    LET i == RFindDot(name)
    IN  IF 1 < i /\ i < Len(name) THEN SubSeq(name, 1, i - 1) ELSE name

\* PurePath.with_suffix applied to the last component of a path
WithSuffix(path, suffix) ==
    LET name == path[Len(path)]
    IN  SubSeq(path, 1, Len(path) - 1) \o <<Stem(name) \o suffix>>

-----------------------------------------------------------------------------
(* Configuration constants of the scripts *)

Tools == {"docling", "marker", "markitdown", "pymupdf"}

\* the suffixes that occur in the allow-lists, as strings
Ext(e) == <<".">> \o e

ExtDocling ==
    {Ext(<<"p","d","f">>), Ext(<<"d","o","c","x">>), Ext(<<"p","p","t","x">>),
     Ext(<<"x","l","s","x">>), Ext(<<"x","l","s">>), Ext(<<"h","t","m","l">>),
     Ext(<<"h","t","m">>), Ext(<<"t","x","t">>), Ext(<<"c","s","v">>),
     Ext(<<"j","p","g">>), Ext(<<"j","p","e","g">>), Ext(<<"p","n","g">>),
     Ext(<<"t","i","f","f">>), Ext(<<"b","m","p">>),
     Ext(<<"w","a","v">>), Ext(<<"m","p","3">>), Ext(<<"m","4","a">>),
     Ext(<<"v","t","t">>)}

ExtMarker ==
    {Ext(<<"p","d","f">>), Ext(<<"d","o","c","x">>), Ext(<<"p","p","t","x">>),
     Ext(<<"x","l","s","x">>), Ext(<<"x","l","s">>), Ext(<<"h","t","m","l">>),
     Ext(<<"h","t","m">>), Ext(<<"e","p","u","b">>),
     Ext(<<"p","n","g">>), Ext(<<"j","p","g">>), Ext(<<"j","p","e","g">>),
     Ext(<<"t","i","f","f">>), Ext(<<"b","m","p">>), Ext(<<"g","i","f">>)}

ExtMarkitdown ==
    {Ext(<<"p","d","f">>), Ext(<<"d","o","c","x">>), Ext(<<"x","l","s","x">>),
     Ext(<<"x","l","s">>), Ext(<<"t","x","t">>), Ext(<<"c","s","v">>),
     Ext(<<"h","t","m","l">>), Ext(<<"h","t","m">>), Ext(<<"e","p","u","b">>),
     Ext(<<"r","t","f">>), Ext(<<"o","d","t">>),
     Ext(<<"j","p","g">>), Ext(<<"j","p","e","g">>), Ext(<<"p","n","g">>),
     Ext(<<"g","i","f">>), Ext(<<"b","m","p">>), Ext(<<"t","i","f","f">>),
     Ext(<<"w","a","v">>), Ext(<<"m","p","3">>), Ext(<<"m","4","a">>),
     Ext(<<"m","p","4">>), Ext(<<"m","o","v">>), Ext(<<"a","v","i">>)}

ExtPymupdf == {Ext(<<"p","d","f">>)}

SUPPORTED_EXTENSIONS(t) ==
    CASE t = "docling"    -> ExtDocling
      [] t = "marker"     -> ExtMarker
      [] t = "markitdown" -> ExtMarkitdown
      [] t = "pymupdf"    -> ExtPymupdf

MAX_FILE_SIZE_MB == 50

BytesPerMB == 1024 * 1024

OUTPUT_DIR_NAME == <<"o","u","t","p","u","t">>

SingleFilesDir == <<"s","i","n","g","l","e","_","f","i","l","e","s">>

UrlsDir == <<"u","r","l","s">>

WebContent == <<"w","e","b","_","c","o","n","t","e","n","t">>

MdSuffix == <<".","m","d">>

Markdown == <<"m","a","r","k","d","o","w","n">>

OutputFormats == {Markdown, <<"j","s","o","n">>}

\* the tool's directory name, Path("<tool>")
ToolDir(t) ==
    CASE t = "docling"    -> <<"d","o","c","l","i","n","g">>
      [] t = "marker"     -> <<"m","a","r","k","e","r">>
      [] t = "markitdown" -> <<"m","a","r","k","i","t","d","o","w","n">>
      [] t = "pymupdf"    -> <<"p","y","m","u","p","d","f">>

\* setup_output_directory: Path("<tool>") / OUTPUT_DIR_NAME
setup_output_directory(t) == <<ToolDir(t), OUTPUT_DIR_NAME>>

\* mutant: the output suffix ignores OUTPUT_FORMAT
ExtensionAlwaysMd(t, fmt) == MdSuffix

\* the suffix of the output file: ".md", in marker "." + OUTPUT_FORMAT when
\* OUTPUT_FORMAT is not "markdown"
Extension(t, fmt) ==
    IF t = "marker" /\ fmt # Markdown THEN <<".">> \o fmt ELSE MdSuffix

\* mutant: the comparison is not strict
TooLargeAtLimit(size) == size >= MAX_FILE_SIZE_MB * BytesPerMB

\* mutant: the size is cut to whole megabytes before the comparison
TooLargeWholeMB(size) == (size \div BytesPerMB) > MAX_FILE_SIZE_MB

\* file_size_mb = size / (1024 * 1024); file_size_mb > MAX_FILE_SIZE_MB.
\* The division is a float division by a power of two, which is exact, so
\* the comparison is the comparison of the byte counts.
TooLarge(size) == size > MAX_FILE_SIZE_MB * BytesPerMB

\* dict.get(key, default)
Get(cfg, key, default) == IF key \in DOMAIN cfg THEN cfg[key] ELSE default

-----------------------------------------------------------------------------
(* The environment: file system and library *)

\* sizes in bytes a size lookup can return: the ceiling and one byte more
Sizes == {MAX_FILE_SIZE_MB * BytesPerMB, MAX_FILE_SIZE_MB * BytesPerMB + 1}

Docs == <<"d","o","c","s">>

FolderPath == << <<"d","a","t","a">> >>

NameABPDF == <<"a",".","b",".","P","D","F">>

NameCpdf == <<"c",".","p","d","f">>

NameDpdf == <<"d",".","p","d","f">>

NameNepub == <<"n",".","e","p","u","b">>

NameCepub == <<"c",".","e","p","u","b">>

FilePathA == << <<"i","n">>, NameABPDF >>

FilePathN == << <<"i","n">>, NameNepub >>

UrlPath == << <<"h","t","t","p",":">>, <<>>, <<"x">>, NameCpdf >>

\* what a traversal of the source folder can yield, as paths relative to it:
\* a file with an upper-case suffix, a directory named like a PDF, and two
\* files below that directory that differ in their suffix only
Entries ==
    { [rel |-> <<NameABPDF>>,          isFile |-> TRUE],
      [rel |-> <<NameDpdf>>,           isFile |-> FALSE],
      [rel |-> <<NameDpdf, NameCpdf>>, isFile |-> TRUE],
      [rel |-> <<NameDpdf, NameCepub>>, isFile |-> TRUE] }

\* the configurations SOURCES is built from
SourcePool ==
    { [type |-> "folder", path |-> FolderPath],
      [type |-> "folder", path |-> FolderPath, name |-> Docs, recursive |-> TRUE],
      [type |-> "folder", path |-> FolderPath, name |-> Docs, recursive |-> FALSE],
      [type |-> "file",   path |-> FilePathA,  name |-> Docs],
      [type |-> "file",   path |-> FilePathA],
      [type |-> "file",   path |-> FilePathN],
      [type |-> "url",    path |-> UrlPath,    name |-> Docs],
      [type |-> "url",    path |-> UrlPath],
      [type |-> "ftp",    path |-> UrlPath] }

NoSource == [type |-> "None", path |-> <<>>]

-----------------------------------------------------------------------------
(* Handling of one item *)

\* the operation that finds the size of a file: markitdown's
\* process_file_source reads the file and takes len(file_bytes), everything
\* else calls file_path.stat()
SizeOp(t, kind) == IF t = "markitdown" /\ kind = "file" THEN "read" ELSE "stat"

\* the operations of the try body after the size check, in order: the
\* library call, the export of its result (docling, marker), mkdir of the
\* output directory, open of the output file, write, and the stat() in the
\* "input size" print
TryOps(t, kind) ==
    LET export == IF t \in {"docling", "marker"} THEN <<"export">> ELSE <<>>
        post   == IF kind = "url" \/ (t = "markitdown" /\ kind = "file")
                  THEN <<>> ELSE <<"poststat">>
    IN  <<"convert">> \o export \o <<"mkdir", "open", "write">> \o post

\* the operations that can raise while an item of this kind is handled
Faults(t, kind) ==
    {"none"} \cup Range(TryOps(t, kind))
             \cup (IF kind = "url" THEN {} ELSE {SizeOp(t, kind)})

Index(ops, op) == CHOOSE i \in 1..Len(ops) : ops[i] = op

\* mutant: a library call that raised is tried a second time
RunOpsRetries(ops, fault) ==
    IF fault = "convert" THEN <<"convert", "convert">>
    ELSE IF fault \in Range(ops) THEN SubSeq(ops, 1, Index(ops, fault)) ELSE ops

\* the operations performed when the first one to raise is fault
RunOps(ops, fault) ==
    IF fault \in Range(ops) THEN SubSeq(ops, 1, Index(ops, fault)) ELSE ops

\* the output file exists once open() has returned
Created(events, fault) == "open" \in Range(events) /\ fault # "open"

\* the record of one handled item: what it was (kind, path, whether it is an
\* existing regular file, its size on disk), the first operation that raised,
\* the operations performed, the outcome and the output file created
Item(kind, path, isfile, size, fault, events, outcome, out) ==
    [kind |-> kind, path |-> path, isfile |-> isfile, size |-> size,
     fault |-> fault, events |-> events, outcome |-> outcome, out |-> out]

NoItem == Item("none", <<>>, FALSE, 0, "none", <<>>, "none", <<>>)

\* mutant: the write of the output is outside the try
TryBodyWriteUncaught(t, kind, path, size, fault, before, output_file_path) ==
    LET ops    == TryOps(t, kind)
        events == before \o RunOps(ops, fault)
    IN  Item(kind, path, kind # "url", size, fault, events,
             IF fault = "write" THEN "raised"
             ELSE IF fault \in Range(ops) THEN "failed" ELSE "converted",
             IF Created(events, fault) THEN output_file_path ELSE <<>>)

\* mutant: the item is counted as converted before its output is written
TryBodyCountsBeforeWrite(t, kind, path, size, fault, before, output_file_path) ==
    LET ops    == TryOps(t, kind)
        events == before \o RunOps(ops, fault)
    IN  Item(kind, path, kind # "url", size, fault, events,
             IF fault \in Range(ops) \ {"write", "poststat"}
             THEN "failed" ELSE "converted",
             IF Created(events, fault) THEN output_file_path ELSE <<>>)

\* the try body of the three handlers: the operations after the size check
\* and the except clause
TryBody(t, kind, path, size, fault, before, output_file_path) ==
    LET ops    == TryOps(t, kind)
        events == before \o RunOps(ops, fault)
    IN  Item(kind, path, kind # "url", size, fault, events,
             IF fault \in Range(ops) THEN "failed" ELSE "converted",
             IF Created(events, fault) THEN output_file_path ELSE <<>>)

\* mutant: the output is named after the file alone, without its directories
FolderOutputPathFlat(output_dir, source_name, relative_path, extension) ==
    output_dir \o <<source_name>>
        \o WithSuffix(<<relative_path[Len(relative_path)]>>, extension)

\* output_dir / source_name / relative_path.with_suffix(extension)
FolderOutputPath(output_dir, source_name, relative_path, extension) ==
    output_dir \o <<source_name>> \o WithSuffix(relative_path, extension)

\* output_dir / "single_files" / f"{source_name}{extension}"
FileOutputPath(output_dir, source_name, extension) ==
    output_dir \o <<SingleFilesDir>> \o <<source_name \o extension>>

\* output_dir / "urls" / f"{source_name}{extension}"
UrlOutputPath(output_dir, source_name, extension) ==
    output_dir \o <<UrlsDir>> \o <<source_name \o extension>>

\* mutant: the suffix is compared as it is spelled
SupportedCaseSensitive(t, path) ==
    Suffix(path[Len(path)]) \in SUPPORTED_EXTENSIONS(t)

\* file_path.suffix.lower() in SUPPORTED_EXTENSIONS
Supported(t, path) == Lower(Suffix(path[Len(path)])) \in SUPPORTED_EXTENSIONS(t)

\* mutant: the loop does not ask is_file(), a directory with an allow-listed
\* suffix is passed to the converter, which fails
FolderItemTakesDirectories(t, fmt, output_dir, source_name, e, size, fault) ==
    IF ~e.isFile /\ Supported(t, e.rel)
    THEN Item("folder", e.rel, FALSE, 0, "convert", <<"stat", "convert">>,
              "failed", <<>>)
    ELSE IF ~(e.isFile /\ Supported(t, e.rel))
    THEN Item("folder", e.rel, e.isFile, IF e.isFile THEN size ELSE 0, "none",
              <<>>, "ignored", <<>>)
    ELSE IF fault = "stat"
    THEN Item("folder", e.rel, TRUE, size, fault, <<"stat">>, "raised", <<>>)
    ELSE IF TooLarge(size)
    THEN Item("folder", e.rel, TRUE, size, "none", <<"stat">>, "skipped", <<>>)
    ELSE TryBody(t, "folder", e.rel, size, fault, <<"stat">>,
                 FolderOutputPath(output_dir, source_name, e.rel,
                                  Extension(t, fmt)))

\* one iteration of the for loop of process_folder_source over the entry e;
\* an exception of file_path.stat() is outside the try and leaves the function
FolderItem(t, fmt, output_dir, source_name, e, size, fault) ==
    IF ~(e.isFile /\ Supported(t, e.rel))
    THEN Item("folder", e.rel, e.isFile, IF e.isFile THEN size ELSE 0, "none",
              <<>>, "ignored", <<>>)
    ELSE IF fault = "stat"
    THEN Item("folder", e.rel, TRUE, size, fault, <<"stat">>, "raised", <<>>)
    ELSE IF TooLarge(size)
    THEN Item("folder", e.rel, TRUE, size, "none", <<"stat">>, "skipped", <<>>)
    ELSE TryBody(t, "folder", e.rel, size, fault, <<"stat">>,
                 FolderOutputPath(output_dir, source_name, e.rel,
                                  Extension(t, fmt)))

\* source_config.get("name", file_path.stem)
FileSourceName(cfg) == Get(cfg, "name", Stem(cfg["path"][Len(cfg["path"])]))

\* mutant: a file source with an unsupported extension is returned as a skip
FileSourceUnsupportedSkipped(t, fmt, output_dir, cfg, exists, size, fault) ==
    LET file_path == cfg["path"]
        sizeop    == SizeOp(t, "file")
        before    == <<"exists", "suffix", sizeop>>
    IN  IF ~exists
        THEN Item("file", file_path, FALSE, 0, "none", <<"exists">>, "failed", <<>>)
        ELSE IF ~Supported(t, file_path)
        THEN Item("file", file_path, TRUE, size, "none", <<"exists", "suffix">>,
                  "skipped", <<>>)
        ELSE IF fault = sizeop
        THEN Item("file", file_path, TRUE, size, fault, before, "failed", <<>>)
        ELSE IF TooLarge(size)
        THEN Item("file", file_path, TRUE, size, "none", before, "skipped", <<>>)
        ELSE TryBody(t, "file", file_path, size, fault, before,
                     FileOutputPath(output_dir, FileSourceName(cfg),
                                    Extension(t, fmt)))

\* process_file_source
process_file_source(t, fmt, output_dir, cfg, exists, size, fault) ==
    LET file_path == cfg["path"]
        sizeop    == SizeOp(t, "file")
        before    == <<"exists", "suffix", sizeop>>
    IN  IF ~exists
        THEN Item("file", file_path, FALSE, 0, "none", <<"exists">>, "failed", <<>>)
        ELSE IF ~Supported(t, file_path)
        THEN Item("file", file_path, TRUE, size, "none", <<"exists", "suffix">>,
                  "failed", <<>>)
        ELSE IF fault = sizeop
        THEN Item("file", file_path, TRUE, size, fault, before, "failed", <<>>)
        ELSE IF TooLarge(size)
        THEN Item("file", file_path, TRUE, size, "none", before, "skipped", <<>>)
        ELSE TryBody(t, "file", file_path, size, fault, before,
                     FileOutputPath(output_dir, FileSourceName(cfg),
                                    Extension(t, fmt)))

\* source_config.get("name", "web_content")
UrlSourceName(cfg) == Get(cfg, "name", WebContent)

\* process_url_source
process_url_source(t, fmt, output_dir, cfg, fault) ==
    TryBody(t, "url", cfg["path"], 0, fault, <<>>,
            UrlOutputPath(output_dir, UrlSourceName(cfg), Extension(t, fmt)))

\* mutant: a failure is returned as a skip
TripleFailedAsSkipped(outcome) ==
    CASE outcome = "converted" -> <<1, 0, 0>>
      [] outcome = "failed"    -> <<0, 0, 1>>
      [] outcome = "skipped"   -> <<0, 0, 1>>
      [] OTHER                 -> <<0, 0, 0>>

\* the (converted, failed, skipped) triple an outcome stands for
Triple(outcome) ==
    CASE outcome = "converted" -> <<1, 0, 0>>
      [] outcome = "failed"    -> <<0, 1, 0>>
      [] outcome = "skipped"   -> <<0, 0, 1>>
      [] OTHER                 -> <<0, 0, 0>>

-----------------------------------------------------------------------------
(* The run *)

\* mutant: the skipped count is not added
AccumulateDropsSkipped(totals, triple) ==
    <<totals[1] + triple[1], totals[2] + triple[2], totals[3]>>

\* total_converted += converted; total_failed += failed; total_skipped += skipped
Accumulate(totals, triple) ==
    <<totals[1] + triple[1], totals[2] + triple[2], totals[3] + triple[3]>>

\* main: total_processed = converted_count + failed_count + skipped_count
TotalProcessed(result) == result[1] + result[2] + result[3]

\* mutant: markitdown has no url branch either
DispatchedNoUrlInMarkitdown(t) ==
    IF t \in {"pymupdf", "markitdown"} THEN {"folder", "file"}
    ELSE {"folder", "file", "url"}

\* the source types convert_from_sources dispatches; pymupdf has no url branch
Dispatched(t) == IF t = "pymupdf" THEN {"folder", "file"} ELSE {"folder", "file", "url"}

\* source_config.get("type")
SourceType(cfg) == Get(cfg, "type", "None")

\* no call of extract_text_from_pdf is looked at
ExtractIdle ==
    /\ mode = "text"
    /\ document = <<>>
    /\ epc = "idle"
    /\ page_num = 0
    /\ text_content = <<>>
    /\ open_docs = 0
    /\ full_content = <<>>

Init ==
    /\ tool \in Tools
    /\ OUTPUT_FORMAT \in (IF tool = "marker" THEN OutputFormats ELSE {Markdown})
    /\ nsources \in 0..MaxSources
    /\ source_config = NoSource
    /\ pc = "start"
    /\ idx = 1
    /\ total_converted = 0 /\ total_failed = 0 /\ total_skipped = 0
    /\ converted_count = 0 /\ failed_count = 0 /\ skipped_count = 0
    /\ seen = {}
    /\ yielded = 0
    /\ cur = NoItem
    /\ returned = <<0, 0, 0>>
    /\ total_processed = 0
    /\ setup_done = {}
    /\ outputs = {}
    /\ writes = 0
    /\ ExtractIdle

\* the path of the input an item was read from
Input(cfg, item) ==
    IF item.kind = "folder" THEN cfg["path"] \o item.path ELSE item.path

\* the write of the item's output returned
WriteCompleted(item) == "write" \in Range(item.events) /\ item.fault # "write"

\* what handling an item does to the output tree: open(output_file_path, 'w')
\* creates or truncates the file, f.write fills it.  The files themselves are
\* recorded only in the behaviours of SpecTree (tree = TRUE).
Emit(cfg, item, tree) ==
    /\ outputs' = IF tree /\ item.out # <<>>
                  THEN outputs \cup {[input |-> Input(cfg, item), out |-> item.out,
                                      converted |-> item.outcome = "converted"]}
                  ELSE outputs
    /\ writes' = writes + (IF WriteCompleted(item) THEN 1 ELSE 0)

\* mutant: the entry after the one just handled is passed over
SourceReturnsSkipsNext(triple) ==
    LET totals == Accumulate(<<total_converted, total_failed, total_skipped>>, triple)
    IN  /\ total_converted' = totals[1]
        /\ total_failed' = totals[2]
        /\ total_skipped' = totals[3]
        /\ returned' = <<returned[1] + triple[1], returned[2] + triple[2],
                         returned[3] + triple[3]>>
        /\ idx' = idx + 2

\* a handler returned triple: the additions after the dispatch, and the loop
\* moves on to the next entry
SourceReturns(triple) ==
    LET totals == Accumulate(<<total_converted, total_failed, total_skipped>>, triple)
    IN  /\ total_converted' = totals[1]
        /\ total_failed' = totals[2]
        /\ total_skipped' = totals[3]
        /\ returned' = <<returned[1] + triple[1], returned[2] + triple[2],
                         returned[3] + triple[3]>>
        /\ idx' = idx + 1

\* main: "if not SOURCES: sys.exit(1)"
MainNoSources ==
    /\ pc = "start"
    /\ nsources = 0
    /\ pc' = "exit1"
    /\ UNCHANGED <<tool, OUTPUT_FORMAT, nsources, source_config, idx,
                   total_converted, total_failed, total_skipped,
                   converted_count, failed_count, skipped_count,
                   seen, yielded, cur, returned, total_processed,
                   setup_done, outputs, writes>>
    /\ UNCHANGED extract_vars

\* main: SOURCES is not empty and setup_output_directory runs; its mkdir
\* either returns or raises, and the exception leaves main
OutputDirectory ==
    /\ pc = "start"
    /\ nsources > 0
    /\ \E made \in BOOLEAN :
         IF made
         THEN pc' = "setup" /\ setup_done' = setup_done \cup {"output_dir"}
         ELSE pc' = "aborted" /\ UNCHANGED setup_done
    /\ UNCHANGED <<tool, OUTPUT_FORMAT, nsources, source_config, idx,
                   total_converted, total_failed, total_skipped,
                   converted_count, failed_count, skipped_count,
                   seen, yielded, cur, returned, total_processed,
                   outputs, writes>>
    /\ UNCHANGED extract_vars

\* mutant: the exception of the constructor is swallowed and main goes on
\* without a converter
SetupFailsGoesOn ==
    /\ pc = "setup"
    /\ tool # "pymupdf"
    /\ pc' = "loop"
    /\ UNCHANGED <<tool, OUTPUT_FORMAT, nsources, source_config, idx,
                   total_converted, total_failed, total_skipped,
                   converted_count, failed_count, skipped_count,
                   seen, yielded, cur, returned, total_processed,
                   setup_done, outputs, writes>>
    /\ UNCHANGED extract_vars

\* main: the converter's constructor raises and setup_<tool> exits;
\* setup_pymupdf constructs nothing
SetupFails ==
    /\ pc = "setup"
    /\ tool # "pymupdf"
    /\ pc' = "exit1"
    /\ UNCHANGED <<tool, OUTPUT_FORMAT, nsources, source_config, idx,
                   total_converted, total_failed, total_skipped,
                   converted_count, failed_count, skipped_count,
                   seen, yielded, cur, returned, total_processed,
                   setup_done, outputs, writes>>
    /\ UNCHANGED extract_vars

\* main: setup_<tool> returns the converter and convert_from_sources starts
\* with zero totals
MainSetup ==
    /\ pc = "setup"
    /\ pc' = "loop"
    /\ setup_done' = setup_done \cup {"converter"}
    /\ idx' = 1
    /\ total_converted' = 0 /\ total_failed' = 0 /\ total_skipped' = 0
    /\ UNCHANGED <<tool, OUTPUT_FORMAT, nsources, source_config,
                   converted_count, failed_count, skipped_count,
                   seen, yielded, cur, returned, total_processed,
                   outputs, writes>>
    /\ UNCHANGED extract_vars

\* "for source_config in sources" has a next entry cfg
LoopHas(cfg) ==
    /\ pc = "loop"
    /\ idx <= nsources
    /\ cfg \in SourcePool
    /\ source_config' = cfg

\* convert_from_sources, source_type == "folder": process_folder_source up to
\* the start of the traversal, or its return when the folder does not exist
FolderEnter ==
    /\ \E cfg \in SourcePool, exists \in BOOLEAN :
         /\ LoopHas(cfg)
         /\ SourceType(cfg) = "folder"
         /\ IF exists
            THEN /\ pc' = "walk"
                 /\ converted_count' = 0 /\ failed_count' = 0 /\ skipped_count' = 0
                 /\ seen' = {}
                 /\ cur' = NoItem
                 /\ UNCHANGED <<idx, total_converted, total_failed, total_skipped,
                                returned>>
            ELSE /\ SourceReturns(<<0, 0, 0>>)
                 /\ cur' = Item("folder_source", cfg["path"], FALSE, 0, "none",
                                <<"exists">>, "missing", <<>>)
                 /\ UNCHANGED <<pc, converted_count, failed_count, skipped_count,
                                seen>>
    /\ UNCHANGED <<tool, OUTPUT_FORMAT, nsources, yielded, total_processed,
                   setup_done, outputs, writes>>
    /\ UNCHANGED extract_vars

\* mutant: the traversal is rglob('*') whatever the flag
CandidatesAlwaysRecursive(cfg) == Entries

\* the entries rglob('*') or glob('*') can yield: glob only direct children
Candidates(cfg) ==
    {e \in Entries : Get(cfg, "recursive", TRUE) \/ Len(e.rel) = 1}

\* source_config.get("name", folder_path.name)
FolderSourceName(cfg) == Get(cfg, "name", cfg["path"][Len(cfg["path"])])

\* one iteration of "for file_path in file_iterator"
FolderItemStep(tree) ==
    /\ pc = "walk"
    /\ yielded < MaxEntries
    /\ yielded' = yielded + 1
    /\ \E item \in {FolderItem(tool, OUTPUT_FORMAT, setup_output_directory(tool),
                                FolderSourceName(source_config), e, size, fault) :
                         e \in {c \in Candidates(source_config) : c.rel \notin seen},
                         size \in Sizes, fault \in Faults(tool, "folder")} :
         LET counts == Accumulate(<<converted_count, failed_count, skipped_count>>,
                                  Triple(item.outcome))
         IN  /\ cur' = item
             /\ Emit(source_config, item, tree)
             /\ seen' = seen \cup {item.path}
             /\ converted_count' = counts[1]
             /\ failed_count' = counts[2]
             /\ skipped_count' = counts[3]
             /\ pc' = IF item.outcome = "raised" THEN "crashed" ELSE "walk"
    /\ UNCHANGED <<tool, OUTPUT_FORMAT, nsources, source_config, idx,
                   total_converted, total_failed, total_skipped,
                   returned, total_processed, setup_done>>
    /\ UNCHANGED extract_vars

FolderNext == FolderItemStep(FALSE)

\* the traversal is exhausted: process_folder_source returns its counters,
\* and its local variables are gone
FolderReturn ==
    /\ pc = "walk"
    /\ SourceReturns(<<converted_count, failed_count, skipped_count>>)
    /\ pc' = "loop"
    /\ cur' = NoItem
    /\ converted_count' = 0 /\ failed_count' = 0 /\ skipped_count' = 0
    /\ seen' = {}
    /\ UNCHANGED <<tool, OUTPUT_FORMAT, nsources, source_config,
                   yielded, total_processed, setup_done, outputs, writes>>
    /\ UNCHANGED extract_vars

\* convert_from_sources, source_type == "file"
FileSourceStep(tree) ==
    /\ \E cfg \in SourcePool :
         /\ LoopHas(cfg)
         /\ SourceType(cfg) = "file"
         /\ \E item \in {process_file_source(tool, OUTPUT_FORMAT,
                                              setup_output_directory(tool),
                                              cfg, exists, size, fault) :
                            exists \in BOOLEAN, size \in Sizes,
                            fault \in Faults(tool, "file")} :
              /\ cur' = item
              /\ Emit(cfg, item, tree)
              /\ SourceReturns(Triple(item.outcome))
    /\ UNCHANGED <<tool, OUTPUT_FORMAT, nsources, pc,
                   converted_count, failed_count, skipped_count,
                   seen, yielded, total_processed, setup_done>>
    /\ UNCHANGED extract_vars

DispatchFile == FileSourceStep(FALSE)

\* convert_from_sources, source_type == "url"
UrlSourceStep(tree) ==
    /\ \E cfg \in SourcePool, fault \in Faults(tool, "url") :
         /\ LoopHas(cfg)
         /\ SourceType(cfg) = "url"
         /\ "url" \in Dispatched(tool)
         /\ LET item == process_url_source(tool, OUTPUT_FORMAT,
                                           setup_output_directory(tool),
                                           cfg, fault)
            IN  /\ cur' = item
                /\ Emit(cfg, item, tree)
                /\ SourceReturns(Triple(item.outcome))
    /\ UNCHANGED <<tool, OUTPUT_FORMAT, nsources, pc,
                   converted_count, failed_count, skipped_count,
                   seen, yielded, total_processed, setup_done>>
    /\ UNCHANGED extract_vars

DispatchUrl == UrlSourceStep(FALSE)

\* mutant: an entry of unsupported type is added to the failures
DispatchUnsupportedCountsFailed ==
    /\ \E cfg \in SourcePool :
         /\ LoopHas(cfg)
         /\ SourceType(cfg) \notin Dispatched(tool)
         /\ cur' = Item("unsupported", cfg["path"], FALSE, 0, "none", <<>>,
                        "none", <<>>)
    /\ SourceReturns(<<0, 1, 0>>)
    /\ UNCHANGED <<tool, OUTPUT_FORMAT, nsources, pc,
                   converted_count, failed_count, skipped_count,
                   seen, yielded, total_processed,
                   setup_done, outputs, writes>>
    /\ UNCHANGED extract_vars

\* convert_from_sources, else branch: "continue"
DispatchUnsupported ==
    /\ \E cfg \in SourcePool :
         /\ LoopHas(cfg)
         /\ SourceType(cfg) \notin Dispatched(tool)
         /\ cur' = Item("unsupported", cfg["path"], FALSE, 0, "none", <<>>,
                        "none", <<>>)
    /\ idx' = idx + 1
    /\ UNCHANGED <<tool, OUTPUT_FORMAT, nsources, pc,
                   total_converted, total_failed, total_skipped,
                   converted_count, failed_count, skipped_count,
                   seen, yielded, returned, total_processed,
                   setup_done, outputs, writes>>
    /\ UNCHANGED extract_vars

\* convert_from_sources returns its totals and main prints the summary
Summary ==
    /\ pc = "loop"
    /\ idx > nsources
    /\ total_processed' = TotalProcessed(<<total_converted, total_failed, total_skipped>>)
    /\ pc' = "done"
    /\ cur' = NoItem
    /\ UNCHANGED <<tool, OUTPUT_FORMAT, nsources, source_config, idx,
                   total_converted, total_failed, total_skipped,
                   converted_count, failed_count, skipped_count,
                   seen, yielded, returned, setup_done, outputs, writes>>
    /\ UNCHANGED extract_vars

Next ==
    \/ MainNoSources
    \/ OutputDirectory
    \/ SetupFails
    \/ MainSetup
    \/ FolderEnter
    \/ FolderNext
    \/ FolderReturn
    \/ DispatchFile
    \/ DispatchUrl
    \/ DispatchUnsupported
    \/ Summary

Spec == Init /\ [][Next]_vars

\* the same run, with the files of the output tree recorded in outputs
FolderNextTree == FolderItemStep(TRUE)

DispatchFileTree == FileSourceStep(TRUE)

DispatchUrlTree == UrlSourceStep(TRUE)

NextTree ==
    \/ MainNoSources
    \/ OutputDirectory
    \/ SetupFails
    \/ MainSetup
    \/ FolderEnter
    \/ FolderNextTree
    \/ FolderReturn
    \/ DispatchFileTree
    \/ DispatchUrlTree
    \/ DispatchUnsupported
    \/ Summary

SpecTree == Init /\ [][NextTree]_vars

-----------------------------------------------------------------------------
(* pymupdf/main.py: extract_text_from_pdf *)

\* The three literals of the function are written in Chinese in the source;
\* each is one element of the returned sequence here:
\* the title line "# PDF ..." of lines 117 and 119,
TitleLine == "# PDF <title>"

\* the heading "## ... " in front of the page number, line 111,
PageHeading == "## <page> "

\* and the placeholder "*...*" of line 119
NoTextPlaceholder == "*<no text>*"

\* TEXT_EXTRACTION_MODE
TEXT_EXTRACTION_MODE == "text"

\* the values of mode: the three named branches and one other format
Modes == {"text", "blocks", "dict", "html"}

\* characters str.strip() removes
Whitespace == {" ", "\n"}

\* str.strip()
Strip(s) ==
    LET keep == {i \in 1..Len(s) : s[i] \notin Whitespace}
    IN  IF keep = {} THEN <<>>
        ELSE SubSeq(s, CHOOSE i \in keep : \A j \in keep : i <= j,
                       CHOOSE i \in keep : \A j \in keep : i >= j)

RECURSIVE Join(_, _)
\* sep.join(parts)
Join(sep, parts) ==
    IF parts = <<>> THEN <<>>
    ELSE IF Len(parts) = 1 THEN parts[1]
    ELSE parts[1] \o sep \o Join(sep, Tail(parts))

\* [block[4] for block in blocks if block[4].strip()]; a block is its text
RECURSIVE NonBlankBlocks(_)
NonBlankBlocks(blocks) ==
    IF blocks = <<>> THEN <<>>
    ELSE (IF Strip(blocks[1]) # <<>> THEN <<blocks[1]>> ELSE <<>>)
             \o NonBlankBlocks(Tail(blocks))

\* for span in line.get("spans", []): text += span.get("text", "") + " "
RECURSIVE SpansText(_)
SpansText(spans) ==
    IF spans = <<>> THEN <<>>
    ELSE spans[1].text \o <<" ">> \o SpansText(Tail(spans))

\* for line in block.get("lines", []): the spans, then text += "\n"
RECURSIVE LinesText(_)
LinesText(lines) ==
    IF lines = <<>> THEN <<>>
    ELSE SpansText(lines[1].spans) \o <<"\n">> \o LinesText(Tail(lines))

\* for block in text_dict.get("blocks", []): the lines of a text block
\* (type 0), then text += "\n"
RECURSIVE DictText(_)
DictText(blocks) ==
    IF blocks = <<>> THEN <<>>
    ELSE (IF blocks[1].type = 0 THEN LinesText(blocks[1].lines) \o <<"\n">>
          ELSE <<>>)
             \o DictText(Tail(blocks))

\* the text of a page from what the library returned for it in mode m
PageText(m, page) ==
    CASE m = "text"   -> page
      [] m = "blocks" -> Join(<<"\n">>, NonBlankBlocks(page))
      [] m = "dict"   -> DictText(page.blocks)
      [] OTHER        -> page

\* mutant: the section carries the loop index
SectionZeroBased(n, text) ==
    <<PageHeading, ToString(n)>> \o <<"\n", "\n">> \o Strip(text)

\* f"## <page> {page_num + 1}\n\n{text.strip()}"
Section(n, text) ==
    <<PageHeading, ToString(n + 1)>> \o <<"\n", "\n">> \o Strip(text)

\* full_content, lines 116-119
FullContent(sections) ==
    IF sections # <<>>
    THEN <<TitleLine, "\n", "\n">> \o Join(<<"\n", "\n">>, sections)
    ELSE <<TitleLine, "\n", "\n", NoTextPlaceholder>>

\* all sequences over S of length at most n
SeqsUpTo(S, n) == UNION {[1..k -> S] : k \in 0..n}

\* what page.get_text() or page.get_text(mode) returns
TextPages == {<<>>, <<" ", "\n">>, <<"a">>, <<"\n", "a", " ">>}

\* what page.get_text("blocks") returns: a list of blocks, each its text
BlockPages == SeqsUpTo({<<" ">>, <<"a">>, <<"b", "\n">>}, 2)

\* what page.get_text("dict") returns
DictPages ==
    {[blocks |-> <<>>],
     [blocks |-> <<[type |-> 1, lines |-> <<>>]>>],
     [blocks |-> <<[type |-> 0,
                    lines |-> <<[spans |-> <<[text |-> <<" ">>]>>]>>]>>],
     [blocks |-> <<[type |-> 0,
                    lines |-> <<[spans |-> <<[text |-> <<"a">>],
                                             [text |-> <<"b">>]>>]>>]>>]}

PageValues(m) ==
    CASE m = "blocks" -> BlockPages
      [] m = "dict"   -> DictPages
      [] OTHER        -> TextPages

\* the PDF documents: what the library returns for each page
Documents(m) == SeqsUpTo(PageValues(m), MaxPages)

\* a handler of a pymupdf run is inside its try and calls
\* extract_text_from_pdf(str(file_path), mode) on some document
InitExtract ==
    /\ tool = "pymupdf"
    /\ OUTPUT_FORMAT = Markdown
    /\ nsources = 1
    /\ source_config = NoSource
    /\ pc = "loop"
    /\ idx = 1
    /\ total_converted = 0 /\ total_failed = 0 /\ total_skipped = 0
    /\ converted_count = 0 /\ failed_count = 0 /\ skipped_count = 0
    /\ seen = {}
    /\ yielded = 0
    /\ cur = NoItem
    /\ returned = <<0, 0, 0>>
    /\ total_processed = 0
    /\ setup_done = {"output_dir", "converter"}
    /\ outputs = {}
    /\ writes = 0
    /\ mode \in Modes
    /\ document \in Documents(mode)
    /\ epc = "call"
    /\ page_num = 0
    /\ text_content = <<>>
    /\ open_docs = 0
    /\ full_content = <<>>

\* doc = fitz.open(pdf_path); text_content = []: open raises, and the except
\* clause raises the function's exception, or the document is open
ExtractOpen ==
    /\ epc = "call"
    /\ \E opened \in BOOLEAN :
         IF opened
         THEN epc' = "loop" /\ open_docs' = open_docs + 1
         ELSE epc' = "raised" /\ UNCHANGED open_docs
    /\ text_content' = <<>>
    /\ page_num' = 0
    /\ UNCHANGED <<mode, document, full_content>>
    /\ UNCHANGED run_vars

\* one iteration of "for page_num in range(len(doc))": load_page or get_text
\* raises, and the except clause raises the function's exception, or the
\* page's section is appended when its text is not blank
ExtractPage ==
    /\ epc = "loop"
    /\ page_num < Len(document)
    /\ \E fault \in {"none", "load_page", "get_text"} :
         IF fault # "none"
         THEN epc' = "raised" /\ UNCHANGED <<page_num, text_content>>
         ELSE LET text == PageText(mode, document[page_num + 1])
              IN  /\ text_content' = IF Strip(text) # <<>>
                                     THEN Append(text_content, Section(page_num, text))
                                     ELSE text_content
                  /\ page_num' = page_num + 1
                  /\ UNCHANGED epc
    /\ UNCHANGED <<mode, document, open_docs, full_content>>
    /\ UNCHANGED run_vars

\* the loop is over: doc.close(), full_content is built and returned
ExtractReturn ==
    /\ epc = "loop"
    /\ page_num = Len(document)
    /\ open_docs' = open_docs - 1
    /\ full_content' = FullContent(text_content)
    /\ epc' = "returned"
    /\ UNCHANGED <<mode, document, page_num, text_content>>
    /\ UNCHANGED run_vars

\* the handlers' items in which the call of extract_text_from_pdf was made
\* and ended as this one did
CallEnded(item) ==
    /\ "convert" \in Range(item.events)
    /\ item.fault = "convert" <=> epc = "raised"

\* process_file_source after the call: the rest of its try body or its except
\* clause, and the return to convert_from_sources
ExtractFileHandled ==
    /\ epc \in {"returned", "raised"}
    /\ mode = TEXT_EXTRACTION_MODE
    /\ \E cfg \in SourcePool :
         /\ LoopHas(cfg)
         /\ SourceType(cfg) = "file"
         /\ \E item \in {process_file_source(tool, OUTPUT_FORMAT,
                                              setup_output_directory(tool),
                                              cfg, TRUE, size, fault) :
                            size \in Sizes, fault \in Faults(tool, "file")} :
              /\ CallEnded(item)
              /\ cur' = item
              /\ Emit(cfg, item, FALSE)
              /\ SourceReturns(Triple(item.outcome))
    /\ epc' = "handled"
    /\ UNCHANGED <<tool, OUTPUT_FORMAT, nsources, pc,
                   converted_count, failed_count, skipped_count,
                   seen, yielded, total_processed, setup_done>>
    /\ UNCHANGED <<mode, document, page_num, text_content, open_docs,
                   full_content>>

\* process_folder_source after the call, in the first iteration of its loop:
\* the rest of the try body or the except clause
ExtractFolderHandled ==
    /\ epc \in {"returned", "raised"}
    /\ mode = TEXT_EXTRACTION_MODE
    /\ \E cfg \in SourcePool :
         /\ LoopHas(cfg)
         /\ SourceType(cfg) = "folder"
         /\ \E item \in {FolderItem(tool, OUTPUT_FORMAT, setup_output_directory(tool),
                                     FolderSourceName(cfg), e, size, fault) :
                            e \in Candidates(cfg), size \in Sizes,
                            fault \in Faults(tool, "folder")} :
              LET counts == Triple(item.outcome)
              IN  /\ CallEnded(item)
                  /\ cur' = item
                  /\ Emit(cfg, item, FALSE)
                  /\ seen' = {item.path}
                  /\ converted_count' = counts[1]
                  /\ failed_count' = counts[2]
                  /\ skipped_count' = counts[3]
    /\ yielded' = yielded + 1
    /\ pc' = "walk"
    /\ epc' = "handled"
    /\ UNCHANGED <<tool, OUTPUT_FORMAT, nsources, idx,
                   total_converted, total_failed, total_skipped,
                   returned, total_processed, setup_done>>
    /\ UNCHANGED <<mode, document, page_num, text_content, open_docs,
                   full_content>>

NextExtract ==
    \/ ExtractOpen
    \/ ExtractPage
    \/ ExtractReturn
    \/ ExtractFileHandled
    \/ ExtractFolderHandled

SpecExtract == InitExtract /\ [][NextExtract]_vars

-----------------------------------------------------------------------------
(* Vocabulary of the properties *)

\* the number of calls of the library's conversion entry point for an item
Calls(item) == Cardinality({i \in 1..Len(item.events) : item.events[i] = "convert"})

\* the counters of the run so far: the totals of convert_from_sources plus,
\* while process_folder_source is running, its local counters
Walking == pc \in {"walk", "crashed"}

Converted == total_converted + (IF Walking THEN converted_count ELSE 0)

Failed == total_failed + (IF Walking THEN failed_count ELSE 0)

Skipped == total_skipped + (IF Walking THEN skipped_count ELSE 0)

\* the step handled an item: a folder entry, a file source or a URL source
ItemStep ==
    /\ idx' # idx \/ yielded' # yielded
    /\ cur'.kind \in {"folder", "file", "url"}

\* the item is an existing regular file with an allow-listed extension
SupportedFile(item) ==
    /\ item.kind \in {"folder", "file"}
    /\ item.isfile
    /\ Supported(tool, item.path)

\* the size lookup of the item (stat, or the read in markitdown's
\* process_file_source) raised
LookupRaised(item) == item.fault \in {"stat", "read"}

\* C1 as stated: every supported file at or below the size limit gets exactly
\* one conversion call.
C1_ExactlyOneCall ==
    (SupportedFile(cur) /\ cur.size <= MAX_FILE_SIZE_MB * BytesPerMB)
        => Calls(cur) = 1

\* C1 amended: a supported file at or below the size limit gets exactly one
\* conversion call when its size lookup returns and none when the lookup
\* raises; never two.
C1_OneCallWhenSizeKnown ==
    (SupportedFile(cur) /\ cur.size <= MAX_FILE_SIZE_MB * BytesPerMB)
        => Calls(cur) = (IF LookupRaised(cur) THEN 0 ELSE 1)

C1_Witness ==
    /\ SupportedFile(cur)
    /\ cur.size = MAX_FILE_SIZE_MB * BytesPerMB
    /\ cur.fault = "convert"
    /\ cur.outcome = "failed"
    /\ Calls(cur) = 1

\* C2 as stated, read for files with an allow-listed extension: every such
\* file above the size limit gets no conversion call and adds exactly one to
\* the skip counter.
C2_OversizeSkipped ==
    [][(ItemStep /\ SupportedFile(cur')
          /\ cur'.size > MAX_FILE_SIZE_MB * BytesPerMB)
        => (Calls(cur') = 0 /\ Skipped' = Skipped + 1)]_vars

\* C2 amended: a file above the size limit gets no conversion call; when it
\* has an allow-listed extension and its size lookup returns, the skip counter
\* grows by one and the other counters stay; when the lookup raises the skip
\* counter stays, a file source counts as failed and in a folder source the
\* exception leaves process_folder_source.
C2_OversizeSkippedWhenSizeKnown ==
    [][(ItemStep /\ cur'.kind \in {"folder", "file"} /\ cur'.isfile
          /\ cur'.size > MAX_FILE_SIZE_MB * BytesPerMB)
        => /\ Calls(cur') = 0
           /\ (Supported(tool, cur'.path) /\ ~LookupRaised(cur'))
                => /\ Skipped' = Skipped + 1
                   /\ Failed' = Failed
                   /\ Converted' = Converted
           /\ LookupRaised(cur')
                => /\ Skipped' = Skipped
                   /\ cur'.kind = "file" => Failed' = Failed + 1
                   /\ cur'.kind = "folder" => pc' = "crashed"]_vars

C2_Witness ==
    /\ tool = "markitdown"
    /\ cur.kind = "file"
    /\ cur.size > MAX_FILE_SIZE_MB * BytesPerMB
    /\ cur.outcome = "skipped"
    /\ total_skipped = 1

\* the four situations C3 names
MissingFolder(item) == item.kind = "folder_source" /\ item.outcome = "missing"

MissingFile(item) == item.kind = "file" /\ ~item.isfile

UnsupportedFileSource(item) ==
    item.kind = "file" /\ item.isfile /\ ~Supported(tool, item.path)

UnsupportedInFolder(item) ==
    item.kind = "folder" /\ item.isfile /\ ~Supported(tool, item.path)

SourceOrItemStep == idx' # idx \/ yielded' # yielded

\* C3 as stated: a missing folder, a missing file source, a file source with
\* an unsupported extension and an unsupported file inside a folder each add
\* exactly one to the failure counter, without a conversion call.
C3_AllCountAsFailed ==
    [][(SourceOrItemStep
          /\ (MissingFolder(cur') \/ MissingFile(cur')
              \/ UnsupportedFileSource(cur') \/ UnsupportedInFolder(cur')))
        => (Failed' = Failed + 1 /\ Calls(cur') = 0)]_vars

\* C3 amended: a file source whose path is missing or whose extension is
\* unsupported adds exactly one to the failure counter without a conversion
\* call; a missing folder source and an unsupported file inside a folder
\* source change no counter and cause no conversion call.
C3_FileSourcesFailFoldersIgnore ==
    [][SourceOrItemStep
        => /\ (MissingFile(cur') \/ UnsupportedFileSource(cur'))
                => /\ Failed' = Failed + 1
                   /\ Converted' = Converted
                   /\ Skipped' = Skipped
                   /\ Calls(cur') = 0
           /\ (MissingFolder(cur') \/ UnsupportedInFolder(cur'))
                => /\ Failed' = Failed
                   /\ Converted' = Converted
                   /\ Skipped' = Skipped
                   /\ Calls(cur') = 0]_vars

C3_Witness ==
    /\ UnsupportedFileSource(cur)
    /\ total_failed = 2
    /\ returned = <<0, 2, 0>>

\* the operations C4 names: the library call, the export of its result,
\* creating the output directory, opening and writing the output file
CaughtOps == {"convert", "export", "mkdir", "open", "write"}

\* C4: an exception of the library call, the export, mkdir or the write of
\* the output is caught for that item: the item counts as failed, the failed
\* counter grows by exactly one, the other counters stay, and control is back
\* at the head of the loop over the folder (folder item) or over the sources
\* (file or URL source); the run does not end with the exception.
C4_ExceptionsCaughtPerItem ==
    [][(ItemStep /\ cur'.fault \in CaughtOps)
        => /\ cur'.outcome = "failed"
           /\ Failed' = Failed + 1
           /\ Converted' = Converted
           /\ Skipped' = Skipped
           /\ pc' = (IF cur'.kind = "folder" THEN "walk" ELSE "loop")
           /\ cur'.kind # "folder" => idx' = idx + 1]_vars

C4_Witness ==
    /\ pc = "walk"
    /\ cur.fault = "write"
    /\ cur.outcome = "failed"
    /\ converted_count = 1
    /\ failed_count = 1

\* C5: after every source the totals of convert_from_sources are the
\* componentwise sum of the triples the handlers returned, and the total
\* main prints is converted + failed + skipped.
C5_TotalsAreSums ==
    /\ <<total_converted, total_failed, total_skipped>> = returned
    /\ pc = "done" => total_processed = returned[1] + returned[2] + returned[3]

C5_Witness ==
    /\ pc = "done"
    /\ returned = <<1, 1, 1>>
    /\ total_processed = 3

\* the suffix the output gets: ".md", in marker "." + OUTPUT_FORMAT unless
\* OUTPUT_FORMAT is "markdown"
ExpectedExtension ==
    IF tool = "marker" /\ OUTPUT_FORMAT # <<"m","a","r","k","d","o","w","n">>
    THEN <<".">> \o OUTPUT_FORMAT
    ELSE <<".","m","d">>

\* name with its final suffix replaced by ext: name is cut at its last dot
ReplacesFinalSuffix(name, ext, result) ==
    \E k \in 2..(Len(name) - 1) :
        /\ name[k] = "."
        /\ \A j \in (k + 1)..Len(name) : name[j] # "."
        /\ result = SubSeq(name, 1, k - 1) \o ext

\* C6: the output of a file converted from a folder source is
\* <tool>/output/<source-name>/<relative path of the input>, every directory
\* of the relative path kept and only the final suffix of the file name
\* replaced by the output extension.
C6_FolderOutputMirrorsInput ==
    (cur.kind = "folder" /\ cur.outcome = "converted")
        => LET rel == cur.path
               n   == Len(rel)
               out == cur.out
           IN  /\ Len(out) = n + 3
               /\ out[1] = ToolDir(tool)
               /\ out[2] = <<"o","u","t","p","u","t">>
               /\ out[3] = (IF "name" \in DOMAIN source_config
                            THEN source_config["name"]
                            ELSE <<"d","a","t","a">>)
               /\ \A i \in 1..(n - 1) : out[3 + i] = rel[i]
               /\ ReplacesFinalSuffix(rel[n], ExpectedExtension, out[n + 3])

C6_Witness ==
    /\ cur.kind = "folder"
    /\ cur.outcome = "converted"
    /\ Len(cur.path) = 2
    /\ "name" \notin DOMAIN source_config

\* C7: a converted file source is written to
\* <tool>/output/single_files/<name><ext> and a converted URL source to
\* <tool>/output/urls/<name><ext>, <name> being the configured name, else the
\* stem of the file or "web_content"; <ext> is ".md", in marker
\* "." + OUTPUT_FORMAT unless OUTPUT_FORMAT is "markdown".  The directory of
\* the input file does not occur in the output path.
C7_SingleFileAndUrlOutput ==
    /\ (cur.kind = "file" /\ cur.outcome = "converted")
         => LET name     == cur.path[Len(cur.path)]
                fallback == IF name = <<"a",".","b",".","P","D","F">>
                            THEN <<"a",".","b">> ELSE <<"n">>
                display  == IF "name" \in DOMAIN source_config
                            THEN source_config["name"] ELSE fallback
            IN  cur.out = <<ToolDir(tool), <<"o","u","t","p","u","t">>,
                            <<"s","i","n","g","l","e","_","f","i","l","e","s">>,
                            display \o ExpectedExtension>>
    /\ (cur.kind = "url" /\ cur.outcome = "converted")
         => LET display == IF "name" \in DOMAIN source_config
                           THEN source_config["name"]
                           ELSE <<"w","e","b","_","c","o","n","t","e","n","t">>
            IN  cur.out = <<ToolDir(tool), <<"o","u","t","p","u","t">>,
                            <<"u","r","l","s">>, display \o ExpectedExtension>>

C7_Witness ==
    /\ tool = "marker"
    /\ OUTPUT_FORMAT = <<"j","s","o","n">>
    /\ cur.kind = "file"
    /\ cur.outcome = "converted"
    /\ "name" \notin DOMAIN source_config
    /\ cur.out[4] = <<"a",".","b",".","j","s","o","n">>

\* the size lookup of the item returned a size
SizeMeasured(item) ==
    /\ \E i \in 1..Len(item.events) : item.events[i] \in {"stat", "read"}
    /\ ~LookupRaised(item)

\* C8 as stated: a file with an allow-listed extension is skipped if and only
\* if its size is greater than 52428800 bytes, and one of exactly 52428800
\* bytes is passed to the converter, in folder and file sources of every
\* script.
C8_CeilingForEveryFile ==
    SupportedFile(cur)
        => /\ cur.outcome = "skipped" <=> cur.size > 52428800
           /\ cur.size = 52428800 => Calls(cur) = 1

\* C8 amended: the ceiling is 50 MB with a strict comparison on the size the
\* script obtains (st_size, in markitdown's file source the length of the
\* bytes it read): a file with an allow-listed extension whose size lookup
\* returns is skipped if and only if the size is greater than 52428800 bytes,
\* and one of exactly 52428800 bytes is passed to the converter; a file whose
\* size lookup raises is neither skipped nor passed to the converter.
C8_StrictCeiling ==
    SupportedFile(cur)
        => IF LookupRaised(cur)
           THEN cur.outcome # "skipped" /\ Calls(cur) = 0
           ELSE /\ SizeMeasured(cur)
                /\ cur.outcome = "skipped" <=> cur.size > 52428800
                /\ cur.size = 52428800 => Calls(cur) = 1
                /\ cur.size > 52428800 => Calls(cur) = 0

C8_Witness ==
    /\ tool = "markitdown"
    /\ cur.kind = "file"
    /\ "read" \in Range(cur.events)
    /\ cur.size = 52428800
    /\ cur.outcome = "converted"

\* convert_from_sources decided what to do with an entry of type "url"
UrlStep == idx' = idx + 1 /\ pc = "loop" /\ source_config'["type"] = "url"

\* C9 as stated: in each of the four scripts a source of kind "url" leads to
\* exactly one conversion call and adds one to exactly one of converted and
\* failed, with the output under <tool>/output/urls/ on success.
C9_AllToolsTakeUrls ==
    [][UrlStep
        => /\ cur'.kind = "url"
           /\ Calls(cur') = 1
           /\ Converted' + Failed' = Converted + Failed + 1
           /\ Skipped' = Skipped]_vars

\* C9 amended: docling, marker and markitdown accept folder, file and url
\* sources: there a url entry leads to exactly one conversion call and adds
\* one to exactly one of converted and failed, with the output under
\* <tool>/output/urls/ on success.  pymupdf accepts folder and file sources
\* only: a url entry is reported as an unsupported source type, with no
\* conversion call and no counter changed.
C9_ThreeToolsTakeUrls ==
    [][UrlStep
        => IF tool = "pymupdf"
           THEN /\ cur'.kind = "unsupported"
                /\ Calls(cur') = 0
                /\ <<Converted', Failed', Skipped'>> = <<Converted, Failed, Skipped>>
           ELSE /\ cur'.kind = "url"
                /\ Calls(cur') = 1
                /\ \/ <<Converted', Failed'>> = <<Converted + 1, Failed>>
                   \/ <<Converted', Failed'>> = <<Converted, Failed + 1>>
                /\ Skipped' = Skipped
                /\ cur'.outcome = "converted"
                     => /\ Converted' = Converted + 1
                        /\ SubSeq(cur'.out, 1, 3)
                             = <<ToolDir(tool), <<"o","u","t","p","u","t">>,
                                 <<"u","r","l","s">>>>]_vars

C9_Witness ==
    /\ tool = "markitdown"
    /\ cur.kind = "url"
    /\ cur.outcome = "converted"
    /\ total_converted = 1

\* C10 as stated: process_file_source and process_url_source return a triple
\* with exactly one 1 and two 0, every supported file visited inside a folder
\* source adds 1 to exactly one of the three counters, and no counter ever
\* decreases.
UnitTriples == {<<1, 0, 0>>, <<0, 1, 0>>, <<0, 0, 1>>}

C10_OneOutcomePerItem ==
    [][/\ (ItemStep /\ cur'.kind \in {"file", "url"})
            => <<total_converted' - total_converted, total_failed' - total_failed,
                 total_skipped' - total_skipped>> \in UnitTriples
       /\ (ItemStep /\ cur'.kind = "folder" /\ SupportedFile(cur'))
            => <<converted_count' - converted_count, failed_count' - failed_count,
                 skipped_count' - skipped_count>> \in UnitTriples
       /\ Converted' >= Converted
       /\ Failed' >= Failed
       /\ Skipped' >= Skipped]_vars

\* the number of items counted so far, whatever their outcome
Counted == Converted + Failed + Skipped

\* the conversion call of the item comes before the open and the write of
\* its output
CallBeforeWrite(item) ==
    \A i, j \in 1..Len(item.events) :
        (item.events[i] = "convert" /\ item.events[j] \in {"open", "write"}) => i < j

\* C11: processing is strictly sequential.  A step handles one item with at
\* most one conversion call, and the outcome of the item (its counter and, on
\* success, its written output) is complete in the step that makes the call,
\* so the call of the next item starts after it.  The sources are dispatched
\* in list order, one position at a time, no source is dispatched while a
\* folder is walked, and inside a folder the files are handled as the
\* traversal yields them, each yielded entry once.
C11_StrictlySequential ==
    [][/\ idx' \in {idx, idx + 1}
       /\ yielded' \in {yielded, yielded + 1}
       /\ ~(idx' # idx /\ yielded' # yielded)
       /\ (pc = "walk" /\ idx' # idx) => (pc' = "loop" /\ yielded' = yielded)
       /\ yielded' # yielded
            => /\ pc = "walk"
               /\ cur'.kind = "folder"
               /\ cur'.path \notin seen
               /\ seen' = seen \cup {cur'.path}
       /\ ItemStep
            => /\ Calls(cur') <= 1
               /\ CallBeforeWrite(cur')
               /\ Counted' = Counted
                     + (IF cur'.outcome \in {"converted", "failed", "skipped"}
                        THEN 1 ELSE 0)
               /\ cur'.outcome = "converted" => WriteCompleted(cur')
               /\ writes' = writes + (IF WriteCompleted(cur') THEN 1 ELSE 0)]_vars

C11_Witness ==
    /\ idx = 3
    /\ yielded = 2
    /\ cur.kind = "url"
    /\ cur.outcome = "converted"
    /\ total_converted = 3
    /\ writes = 3

\* C12: the skipped counter grows only by one at a time and only for an
\* existing file with an allow-listed extension whose measured size is above
\* the ceiling; a missing path, an unsupported extension, an unsupported
\* source type, an exception of the library, of the size lookup, of the read
\* or of the output write never changes it.
C12_SkippedOnlyForOversize ==
    [][Skipped' # Skipped
        => /\ Skipped' = Skipped + 1
           /\ ItemStep
           /\ SupportedFile(cur')
           /\ SizeMeasured(cur')
           /\ cur'.size > 52428800
           /\ cur'.outcome = "skipped"
           /\ cur'.fault = "none"
           /\ Calls(cur') = 0]_vars

C12_Witness ==
    /\ pc = "walk"
    /\ cur.kind = "folder"
    /\ cur.outcome = "skipped"
    /\ cur.size = 52428801
    /\ skipped_count = 1
    /\ failed_count = 1

\* C13 as stated: once SOURCES is known to be non-empty and the converter is
\* set up, the run either has reached the summary of main, with every entry
\* of SOURCES dispatched once, or can take a further step: no failure of a
\* per-file operation (size lookup, conversion, output write) ends it before
\* the summary.
C13_EveryRunReachesSummary ==
    "converter" \in setup_done
        => \/ pc = "done" /\ idx = nsources + 1
           \/ ENABLED Next

\* C14: an item is counted as converted only after its output file has been
\* written completely: in every state the number of items counted as
\* converted is at most the number of completed output writes, the item last
\* handled is counted as converted only if its write completed, and never
\* when its conversion call, the export, mkdir, open or the write raised.
C14_ConvertedAfterWrite ==
    /\ Converted <= writes
    /\ cur.outcome = "converted" => (WriteCompleted(cur) /\ CallBeforeWrite(cur))
    /\ cur.fault \in CaughtOps => cur.outcome # "converted"

C14_Witness ==
    /\ cur.kind = "file"
    /\ cur.outcome = "converted"
    /\ WriteCompleted(cur)
    /\ total_converted = 1
    /\ total_failed = 1
    /\ writes = 2

\* C15 as stated: an item counted as failed or skipped leaves the output
\* tree unchanged: no output file is created or truncated for it, so the
\* number of output files written during the run never exceeds the number
\* of items counted as converted.
C15_FailedLeavesNoOutput ==
    /\ cur.outcome \in {"failed", "skipped"} => cur.out = <<>>
    /\ writes <= Converted

\* C16 as stated: within one run distinct converted inputs are written to
\* distinct output paths, so no output written for a converted item is
\* overwritten by another item of the run; this covers two files of a folder
\* that differ in their extension only, and sources with the same name.
C16_DistinctOutputs ==
    \A a, b \in outputs :
        (a.converted /\ b.converted /\ a.input # b.input) => a.out # b.out

\* the traversal of a folder yielded an entry that is not a regular file or
\* whose extension is outside the allow-list
FilteredEntryStep ==
    /\ yielded' # yielded
    /\ cur'.kind = "folder"
    /\ ~(cur'.isfile /\ Supported(tool, cur'.path))

\* C17: inside a folder source an entry that is not a regular file, or whose
\* extension is outside the allow-list, changes none of the three counters,
\* causes no conversion call and no size lookup, produces no output, and the
\* walk goes on; so it is not part of the total main prints.
C17_FilteredEntriesChangeNothing ==
    [][FilteredEntryStep
        => /\ <<Converted', Failed', Skipped'>> = <<Converted, Failed, Skipped>>
           /\ <<converted_count', failed_count', skipped_count'>>
                = <<converted_count, failed_count, skipped_count>>
           /\ cur'.events = <<>>
           /\ cur'.out = <<>>
           /\ writes' = writes
           /\ pc' = "walk"]_vars

C17_Witness ==
    /\ pc = "walk"
    /\ cur.kind = "folder"
    /\ ~cur.isfile
    /\ cur.path = << <<"d",".","p","d","f">> >>
    /\ cur.outcome = "ignored"
    /\ converted_count = 1
    /\ yielded = 2

\* the kinds of source a script handles: folder, file and url, in pymupdf
\* folder and file
HandledKinds == IF tool = "pymupdf" THEN {"folder", "file"} ELSE {"folder", "file", "url"}

\* convert_from_sources took an entry whose type is none of these
UnknownTypeStep ==
    /\ pc = "loop"
    /\ idx' # idx
    /\ source_config'["type"] \notin HandledKinds

\* C18: a source entry whose type is none of the kinds the script
\* dispatches changes no counter, makes no conversion call and writes no
\* output, and the loop goes on with the entry that follows it.
C18_UnknownTypeChangesNothing ==
    [][/\ UnknownTypeStep
            => /\ <<total_converted', total_failed', total_skipped'>>
                    = <<total_converted, total_failed, total_skipped>>
               /\ returned' = returned
               /\ cur'.kind = "unsupported"
               /\ Calls(cur') = 0
               /\ cur'.out = <<>>
               /\ writes' = writes
               /\ idx' = idx + 1
               /\ pc' = "loop"
       /\ cur.kind = "unsupported"
            => /\ pc = "loop"
               /\ IF idx <= nsources
                  THEN source_config' \in SourcePool
                       /\ (idx' = idx + 1 \/ pc' = "walk")
                  ELSE pc' = "done"]_vars

C18_Witness ==
    /\ cur.kind = "unsupported"
    /\ source_config["type"] = "ftp"
    /\ idx = 2
    /\ nsources = 2
    /\ ENABLED DispatchFile

\* convert_from_sources has been entered, or something was dispatched,
\* converted or written
Dispatching ==
    \/ pc \in {"loop", "walk", "crashed", "done"}
    \/ idx > 1
    \/ yielded > 0
    \/ cur # NoItem
    \/ writes > 0
    \/ returned # <<0, 0, 0>>

\* C19: nothing is dispatched and no conversion call is made unless SOURCES
\* is non-empty and both the output directory and the converter were set
\* up.  With an empty SOURCES main exits with status 1 before it creates the
\* output directory or the converter; when the constructor of the converter
\* raises, the script exits with status 1 with the output directory created
\* and convert_from_sources not entered.
C19_NoDispatchWithoutSetup ==
    /\ Dispatching => (nsources > 0 /\ setup_done = {"output_dir", "converter"})
    /\ nsources = 0 => (pc \in {"start", "exit1"} /\ setup_done = {})
    /\ pc = "exit1"
         => /\ ~Dispatching
            /\ "converter" \notin setup_done
            /\ nsources > 0 => setup_done = {"output_dir"}

C19_Witness ==
    /\ pc = "exit1"
    /\ nsources = 2
    /\ tool = "marker"
    /\ setup_done = {"output_dir"}

\* the recursion flag of the folder source being walked, true when absent
RecursiveFlag ==
    IF "recursive" \in DOMAIN source_config THEN source_config["recursive"] ELSE TRUE

\* a file one directory below the source folder
DeepFile == << <<"d",".","p","d","f">>, <<"c",".","p","d","f">> >>

\* C20: the recursion flag of a folder source decides which files are
\* considered.  With recursive false every entry the walk handles is a direct
\* child of the folder, so no file in a subdirectory is converted, skipped or
\* counted, and when the traversal starts a file in a subdirectory cannot be
\* its first item; with recursive true, or the flag absent, such a file can
\* be the first item and be converted.
C20_RecursiveFlagDecides ==
    Walking
        => /\ ~RecursiveFlag
                => /\ \A p \in seen : Len(p) = 1
                   /\ cur.kind = "folder" => Len(cur.path) = 1
           /\ (pc = "walk" /\ seen = {} /\ yielded < MaxEntries)
                => (RecursiveFlag
                      <=> ENABLED (FolderNext /\ cur'.path = DeepFile
                                              /\ cur'.outcome = "converted"))

C20_Witness ==
    /\ pc = "walk"
    /\ "recursive" \in DOMAIN source_config
    /\ ~source_config["recursive"]
    /\ yielded = 1
    /\ cur.kind = "folder"
    /\ cur.outcome = "converted"
    /\ ~ENABLED (FolderNext /\ Len(cur'.path) = 2)

\* the call of extract_text_from_pdf returned its string
Extracted == epc = "returned" \/ (epc = "handled" /\ cur.fault # "convert")

\* the 1-based indices of the pages whose extracted text is not blank
NonBlankPages ==
    {i \in 1..Len(document) : Strip(PageText(mode, document[i])) # <<>>}

\* the elements of a set of numbers in ascending order
Ascending(S) ==
    CHOOSE f \in [1..Cardinality(S) -> S] :
        \A i, j \in 1..Cardinality(S) : i < j => f[i] < f[j]

\* what follows each page heading of a string, in the order of the string
HeadingNumbers(s) ==
    LET at == Ascending({k \in 1..Len(s) : s[k] = PageHeading})
    IN  [j \in 1..Len(at) |-> s[at[j] + 1]]

\* the text between the k-th page heading of a string and the next one, or
\* the end of the string, without the page number and the blank lines around
SectionBody(s, k) ==
    LET at   == Ascending({i \in 1..Len(s) : s[i] = PageHeading})
        last == IF k < Len(at) THEN at[k + 1] - 3 ELSE Len(s)
    IN  SubSeq(s, at[k] + 4, last)

\* C21: extract_text_from_pdf returns the title line followed by one section
\* per page whose extracted text is not blank, in ascending page order and
\* headed by the page's 1-based index in the document, blank pages being left
\* out without renumbering; when no page yields text it returns the title
\* line followed by the placeholder.  The result is never empty, and the
\* handler that wrote it without an error counts the file as converted.
C21_SectionsOfNonBlankPages ==
    Extracted
        => /\ full_content # <<>>
           /\ SubSeq(full_content, 1, 3) = <<TitleLine, "\n", "\n">>
           /\ HeadingNumbers(full_content)
                 = [j \in 1..Cardinality(NonBlankPages)
                       |-> ToString(Ascending(NonBlankPages)[j])]
           /\ \A j \in 1..Cardinality(NonBlankPages) :
                 SectionBody(full_content, j)
                    = Strip(PageText(mode, document[Ascending(NonBlankPages)[j]]))
           /\ NonBlankPages # {} => full_content[4] = PageHeading
           /\ NonBlankPages = {}
                 => full_content = <<TitleLine, "\n", "\n", NoTextPlaceholder>>
           /\ (epc = "handled" /\ cur.fault = "none")
                 => /\ cur.outcome = "converted"
                    /\ Accumulate(<<total_converted, total_failed, total_skipped>>,
                                  <<converted_count, failed_count, skipped_count>>)
                          = <<1, 0, 0>>

\* a two-page document whose first page is blank was extracted: its only
\* section is headed 2, and the file is counted as converted
C21_Witness ==
    /\ epc = "handled"
    /\ Len(document) = 2
    /\ NonBlankPages = {2}
    /\ HeadingNumbers(full_content) = <<"2">>
    /\ cur.outcome = "converted"

\* C22: every document extract_text_from_pdf opened is closed when the
\* function has returned or raised, also when extracting a page raised, so
\* that no document is open once the handler is done with the item.
C22_NoDocumentLeftOpen ==
    epc \in {"returned", "raised", "handled"} => open_docs = 0

\* the item went past the extension test of its handler
PastFilter(item) ==
    \/ item.kind = "folder" /\ item.outcome # "ignored"
    \/ item.kind = "file" /\ Len(item.events) > 2

\* the part of the name from its last dot on, in lowercase, is in the
\* allow-list of the script
FinalSuffixAllowed(name) ==
    \E i \in 2..(Len(name) - 1) :
        /\ name[i] = "."
        /\ \A j \in (i + 1)..Len(name) : name[j] # "."
        /\ Lower(SubSeq(name, i, Len(name))) \in SUPPORTED_EXTENSIONS(tool)

\* the path with the final suffix of its last component in lowercase
LowercaseTwin(path) ==
    LET name == path[Len(path)]
    IN  SubSeq(path, 1, Len(path) - 1) \o <<Stem(name) \o Lower(Suffix(name))>>

\* what the handler of the item makes of the lowercase twin of its file, all
\* else (existence, size, the operation that raises) being the same
TwinItem(item) ==
    IF item.kind = "folder"
    THEN FolderItem(tool, OUTPUT_FORMAT, setup_output_directory(tool),
                    FolderSourceName(source_config),
                    [rel |-> LowercaseTwin(item.path), isFile |-> item.isfile],
                    item.size, item.fault)
    ELSE process_file_source(tool, OUTPUT_FORMAT, setup_output_directory(tool),
                             [source_config EXCEPT
                                 !["path"] = LowercaseTwin(item.path)],
                             item.isfile, item.size, item.fault)

\* C23: the extension test ignores letter case and looks at the final suffix
\* only.  An existing file of a folder source or a file source goes past the
\* test exactly when the part of its name from the last dot on, in lowercase,
\* is allow-listed, and it is then handled as the same file with that suffix
\* in lowercase would be: same operations, same outcome, same output file.
C23_CaseInsensitiveFinalSuffix ==
    (cur.kind \in {"folder", "file"} /\ cur.isfile)
        => /\ PastFilter(cur) <=> FinalSuffixAllowed(cur.path[Len(cur.path)])
           /\ cur = [TwinItem(cur) EXCEPT !.path = cur.path]

\* a.b.PDF, found in a folder, was converted by pymupdf
C23_Witness ==
    /\ tool = "pymupdf"
    /\ cur.kind = "folder"
    /\ cur.path[Len(cur.path)] = NameABPDF
    /\ cur.path # LowercaseTwin(cur.path)
    /\ cur.outcome = "converted"

=============================================================================
